---- MODULE Spec2Model ----
\* TableText (src/tags/object/RichText/table.js): the math-aware rendering of a
\* JSON conversation and the MathJax typeset scheduler, with the two earlier
\* revisions of the component kept for comparison.
EXTENDS Integers, Sequences, FiniteSets, TLC

VARIABLES
  \* --- the typeset scheduler and the host surface that mounts content ---
  typesetPromise, \* the module-scoped handle: "null" or "promise"
  timers,         \* pending setTimeout callbacks, in expiry order: who scheduled each
  microtasks,     \* pending promise reactions, in order
  inflight,       \* calls to window.MathJax.typesetPromise started and not settled
  engineReady,    \* typeof window.MathJax.typesetPromise === 'function'
  contextMounted, \* a <MathJaxContext/> has been mounted on the page
  log,            \* history: the scheduler's events since it last left Idle
  nTriggers,      \* history: mounts so far
  nFail,          \* history: engine rejections so far
  uncovered,      \* history: a trigger was made with the engine callable and no
                  \*          engine call has been started since
  \* --- the tokenizer on one field ---
  field, tokens, tokensOld, nodes, tpc,
  \* --- renderTableValue on one raw value ---
  val, result, resultOld, resultTable, rpc

schedVars == <<typesetPromise, timers, microtasks, inflight, engineReady,
               contextMounted, log, nTriggers, nFail, uncovered>>
tokVars == <<field, tokens, tokensOld, nodes, tpc>>
renderVars == <<val, result, resultOld, resultTable, rpc>>
vars == <<schedVars, tokVars, renderVars>>

\* ------------------------------------------------------------------ bounds
MaxPieces == 5
MaxConvs == 2
MaxTuple == 2
MaxTriggers == 3
MaxFail == 2

\* ------------------------------------------------------- strings and values
\* A JavaScript string is a sequence of one-character strings.
BS == "\\"
NL == "\n"
MATHJAX_MARKER == <<"$">>

RECURSIVE Flatten(_)
Flatten(ss) == IF ss = <<>> THEN <<>> ELSE Head(ss) \o Flatten(Tail(ss))

\* s[from..to) with 0-based offsets, as String.prototype.substring
Substring(s, from, to) == SubSeq(s, from + 1, to)

Min(S) == CHOOSE x \in S : \A y \in S : x <= y

\* JavaScript values the code handles
Str(s) == [t |-> "str", s |-> s, items |-> <<>>]
Undefined == [t |-> "undefined", s |-> <<>>, items |-> <<>>]
Arr(items) == [t |-> "arr", s |-> <<>>, items |-> items]

\* --------------------------------------------------------------- tokenizer
\* /\\[([](.*?)\\[)\]]/sg
mathRegex == [open |-> {"(", "["}, close |-> {")", "]"}, dotAll |-> TRUE]
\* /\\\((.*?)\\\)/g
mathRegexOld == [open |-> {"("}, close |-> {")"}, dotAll |-> FALSE]

\* 1-based positions j at which a closing delimiter of re starts, at or after from
Closers(s, re, from) ==
  {j \in from..(Len(s) - 1) : s[j] = BS /\ s[j + 1] \in re.close}

\* "(.*)", greedy: the interior runs to the last closing delimiter
GreedyCloser(s, re, from) ==
  CHOOSE x \in Closers(s, re, from) : \A y \in Closers(s, re, from) : y <= x
\* "(.*?)": the lazy interior ends at the first closing delimiter
LazyCloser(s, re, from) == Min(Closers(s, re, from))

\* The regex matched at 0-based offset q exactly (a sticky match): the lazy
\* interior stops at the first closing delimiter; without the s flag "." does
\* not match a line break.
MatchesAt(s, re, q) ==
  /\ q + 2 <= Len(s)
  /\ s[q + 1] = BS
  /\ s[q + 2] \in re.open
  /\ Closers(s, re, q + 3) # {}
  /\ re.dotAll \/ \A k \in (q + 3)..(LazyCloser(s, re, q + 3) - 1) : s[k] # NL

\* 0-based offset just past the match at q
MatchEnd(s, re, q) == LazyCloser(s, re, q + 3) + 1
\* the capturing group of the match at q
Capture(s, re, q) == SubSeq(s, q + 3, LazyCloser(s, re, q + 3) - 1)

\* String.prototype.split(regex) with one capturing group: the pieces between
\* the matches, each match replaced by its capture.
RECURSIVE SplitLoop(_, _, _, _, _)
SplitLoop(s, re, p, q, acc) ==
  IF q >= Len(s) THEN Append(acc, Substring(s, p, Len(s)))
  ELSE IF ~MatchesAt(s, re, q) \/ MatchEnd(s, re, q) = p
       THEN SplitLoop(s, re, p, q + 1, acc)
       ELSE SplitLoop(s, re, MatchEnd(s, re, q), MatchEnd(s, re, q),
                      acc \o <<Substring(s, p, q), Capture(s, re, q)>>)

Split(s, re) == IF Len(s) = 0 THEN <<s>> ELSE SplitLoop(s, re, 0, 0, <<>>)

\* parseConvoWithMath of table.js: a list of strings, or the TypeError of
\* calling .split on something that has none
parseConvoWithMath(str) ==
  IF str.t = "str" THEN [threw |-> FALSE, list |-> Split(str.s, mathRegex)]
  ELSE [threw |-> TRUE, list |-> <<>>]

\* parseConvoWithMath of the earlier revision: parenthesis delimiters only
parseConvoWithMathOld(str) ==
  IF str.t = "str" THEN [threw |-> FALSE, list |-> Split(str.s, mathRegexOld)]
  ELSE [threw |-> TRUE, list |-> <<>>]

\* renderAllMathJax: one node per list entry, text at the even (0-based)
\* positions and math at the odd ones
MathNode(convo) ==
  [type |-> "math",
   content |-> <<>>,
   hiddenRaw |-> <<BS, "(">> \o convo \o <<BS, ")">>,
   markedRaw |-> MATHJAX_MARKER \o convo \o MATHJAX_MARKER]

TextNode(convo) ==
  [type |-> "text", content |-> convo, hiddenRaw |-> <<>>, markedRaw |-> <<>>]

renderAllMathJax(convoAndMathList) ==
  [i \in 1..Len(convoAndMathList) |->
     IF (i - 1) % 2 = 0 THEN TextNode(convoAndMathList[i])
     ELSE MathNode(convoAndMathList[i])]

\* ------------------------------------------------- the tokenizer's inputs
Pieces == {<<"a">>, <<NL>>, <<BS>>, <<BS, "(">>, <<BS, ")">>, <<BS, "[">>, <<BS, "]">>}

\* a field: up to MaxPieces pieces, one after the other
FieldOf(pieces) == Flatten(pieces)

\* ------------------------------------------------------------ JSON.parse
\* The raw value is a sequence of JSON lexemes.
LB == [k |-> "[", s |-> <<>>]
RB == [k |-> "]", s |-> <<>>]
COMMA == [k |-> ",", s |-> <<>>]
StrTok(s) == [k |-> "str", s |-> s]

SyntaxError(m) == [ok |-> FALSE, v |-> Undefined, rest |-> <<>>, message |-> m]

\* value := string | "[" "]" | "[" value ("," value)* "]"
RECURSIVE ParseValue(_), ParseElems(_, _)
ParseValue(toks) ==
  IF toks = <<>> THEN SyntaxError("Unexpected end of JSON input")
  ELSE IF Head(toks).k = "str"
       THEN [ok |-> TRUE, v |-> Str(Head(toks).s), rest |-> Tail(toks), message |-> ""]
  ELSE IF Head(toks).k = "["
       THEN IF Tail(toks) # <<>> /\ Head(Tail(toks)).k = "]"
            THEN [ok |-> TRUE, v |-> Arr(<<>>), rest |-> Tail(Tail(toks)), message |-> ""]
            ELSE ParseElems(Tail(toks), <<>>)
  ELSE SyntaxError("Unexpected token")

ParseElems(toks, acc) ==
  LET r == ParseValue(toks) IN
  IF ~r.ok THEN r
  ELSE IF r.rest = <<>> THEN SyntaxError("Unexpected end of JSON input")
  ELSE IF Head(r.rest).k = "," THEN ParseElems(Tail(r.rest), Append(acc, r.v))
  ELSE IF Head(r.rest).k = "]"
       THEN [ok |-> TRUE, v |-> Arr(Append(acc, r.v)), rest |-> Tail(r.rest), message |-> ""]
  ELSE SyntaxError("Unexpected token")

\* JSON.parse(val): the value, or the SyntaxError it throws
JSONparse(toks) ==
  LET r == ParseValue(toks) IN
  IF r.ok /\ r.rest # <<>> THEN SyntaxError("Unexpected token") ELSE r

\* ------------------------------------------------------- renderTableValue
\* conversation[i]: an element, a character, or undefined
Index(v, i) ==
  IF v.t = "arr" THEN (IF i < Len(v.items) THEN v.items[i + 1] ELSE Undefined)
  ELSE IF v.t = "str" THEN (IF i < Len(v.s) THEN Str(<<v.s[i + 1]>>) ELSE Undefined)
  ELSE Undefined

\* a value in a condition: the empty string and undefined are falsy
Truthy(v) == ~(v.t = "undefined" \/ (v.t = "str" /\ v.s = <<>>))

NoComponent == [kind |-> "none", nodes |-> <<>>, text |-> Undefined]
MathComponent(list) == [kind |-> "math", nodes |-> renderAllMathJax(list), text |-> Undefined]
PlainComponent(v) == [kind |-> "plain", nodes |-> <<>>, text |-> v]

ErrorNode(message) ==
  [kind |-> "error", msg |-> <<"Couldn't parse JSON: ", message>>,
   rows |-> <<>>, wrapped |-> FALSE]
Thrown == [kind |-> "throw", msg |-> <<>>, rows |-> <<>>, wrapped |-> FALSE]

\* one field of one conversation (table.js 94-113)
FieldComponent(v, list) ==
  IF Len(list) > 1 THEN MathComponent(list)
  ELSE IF Truthy(v) THEN PlainComponent(v)
  ELSE NoComponent

\* the callback of conversations.map (table.js 64-121)
Row(conversation) ==
  LET question == Index(conversation, 0)
      answer == Index(conversation, 1)
      mathQuestions == parseConvoWithMath(question)
      mathAnswers == parseConvoWithMath(answer)
  IN IF mathQuestions.threw \/ mathAnswers.threw
     THEN [threw |-> TRUE, q |-> NoComponent, a |-> NoComponent, hasMath |-> FALSE]
     ELSE [threw |-> FALSE,
           q |-> FieldComponent(question, mathQuestions.list),
           a |-> FieldComponent(answer, mathAnswers.list),
           hasMath |-> Len(mathQuestions.list) > 1 \/ Len(mathAnswers.list) > 1]

\* renderTableValue without the try/catch around JSON.parse
renderTableValueNoCatch(v) ==
  LET parsed == JSONparse(v) IN
  IF ~parsed.ok \/ parsed.v.t # "arr" THEN Thrown
  ELSE LET rowElems == [i \in 1..Len(parsed.v.items) |-> Row(parsed.v.items[i])] IN
       IF \E i \in 1..Len(rowElems) : rowElems[i].threw THEN Thrown
       ELSE [kind |-> "rows", msg |-> <<>>, rows |-> rowElems,
             wrapped |-> \E i \in 1..Len(rowElems) : rowElems[i].hasMath]

renderTableValue(v) ==
  LET parsed == JSONparse(v) IN
  IF ~parsed.ok THEN ErrorNode(parsed.message)
  ELSE IF parsed.v.t # "arr" THEN Thrown
  ELSE LET rowElems == [i \in 1..Len(parsed.v.items) |-> Row(parsed.v.items[i])] IN
       IF \E i \in 1..Len(rowElems) : rowElems[i].threw THEN Thrown
       ELSE [kind |-> "rows", msg |-> <<>>, rows |-> rowElems,
             wrapped |-> \E i \in 1..Len(rowElems) : rowElems[i].hasMath]

\* the earlier revision (parenthesis delimiters, a component for every field)
RowOld(conversation) ==
  LET question == Index(conversation, 0)
      answer == Index(conversation, 1)
      mathQuestions == parseConvoWithMathOld(question)
      mathAnswers == parseConvoWithMathOld(answer)
  IN IF mathQuestions.threw \/ mathAnswers.threw
     THEN [threw |-> TRUE, q |-> NoComponent, a |-> NoComponent, hasMath |-> FALSE]
     ELSE [threw |-> FALSE,
           q |-> IF Len(mathQuestions.list) > 1 THEN MathComponent(mathQuestions.list)
                 ELSE PlainComponent(question),
           a |-> IF Len(mathAnswers.list) > 1 THEN MathComponent(mathAnswers.list)
                 ELSE PlainComponent(answer),
           hasMath |-> Len(mathQuestions.list) > 1 \/ Len(mathAnswers.list) > 1]

renderTableValueOld(v) ==
  LET parsed == JSONparse(v) IN
  IF ~parsed.ok THEN ErrorNode(parsed.message)
  ELSE IF parsed.v.t # "arr" THEN Thrown
  ELSE LET rowElems == [i \in 1..Len(parsed.v.items) |-> RowOld(parsed.v.items[i])] IN
       IF \E i \in 1..Len(rowElems) : rowElems[i].threw THEN Thrown
       ELSE [kind |-> "rows", msg |-> <<>>, rows |-> rowElems,
             wrapped |-> \E i \in 1..Len(rowElems) : rowElems[i].hasMath]

\* the first revision: a plain table of positions 1 and 2, no tokenizer
RowTable(conversation) ==
  [threw |-> FALSE,
   q |-> PlainComponent(Index(conversation, 1)),
   a |-> PlainComponent(Index(conversation, 2)),
   hasMath |-> FALSE]

renderTableValueTable(v) ==
  LET parsed == JSONparse(v) IN
  IF ~parsed.ok THEN ErrorNode(parsed.message)
  ELSE IF parsed.v.t # "arr" THEN Thrown
  ELSE [kind |-> "rows", msg |-> <<>>,
        rows |-> [i \in 1..Len(parsed.v.items) |-> RowTable(parsed.v.items[i])],
        wrapped |-> FALSE]

\* ------------------------------------------------------ the raw values
FieldValues == {<<>>, <<"a">>, <<BS, "(", "a", BS, ")">>}

\* a tuple of up to MaxTuple fields
Tuples == UNION {[1..m -> FieldValues] : m \in 0..MaxTuple}

RECURSIVE Joined(_)
\* the lexemes of the elements, separated by commas
Joined(parts) ==
  IF parts = <<>> THEN <<>>
  ELSE IF Len(parts) = 1 THEN parts[1]
  ELSE parts[1] \o <<COMMA>> \o Joined(Tail(parts))

StringifyTuple(tuple) ==
  <<LB>> \o Joined([i \in 1..Len(tuple) |-> <<StrTok(tuple[i])>>]) \o <<RB>>
Stringify(convs) ==
  <<LB>> \o Joined([i \in 1..Len(convs) |-> StringifyTuple(convs[i])]) \o <<RB>>

Without(s, i) == SubSeq(s, 1, i - 1) \o SubSeq(s, i + 1, Len(s))

\* what is done to the JSON text of a list before it is rendered: nothing, its
\* first, its third or its last lexeme is lost, or only a string is left
Damages == {"none", "first", "third", "last", "bare"}
Damaged(v, how) ==
  IF how = "first" THEN Without(v, 1)
  ELSE IF how = "bare" THEN <<StrTok(<<"a">>)>>
  ELSE IF how = "third" THEN Without(v, 3)
  ELSE IF how = "last" THEN Without(v, Len(v))
  ELSE v

\* ------------------------------------------------------ typeset scheduler
\* The longest history one departure from Idle can have when failures are
\* bounded: per timer a trigger, an expiry and a settlement, per failure a clear.
MaxLog == 3 * (MaxTriggers + MaxFail) + MaxFail

Idle ==
  /\ typesetPromise = "null"
  /\ timers = <<>>
  /\ microtasks = <<>>
  /\ inflight = 0

Event(e, by) == [e |-> e, by |-> by, ready |-> engineReady]
Logged(l, ev) == IF Len(l) < MaxLog THEN Append(l, ev) ELSE l

\* a callback that does not look at the handle
ShouldInvokeAnyHandle(handle, ready) == ready

\* the test the timer callback makes before it calls the engine (table.js 156-161)
ShouldInvoke(handle, ready) == handle = "null" /\ ready

\* triggerMathJaxTypeset: schedule the callback, 100 ms from now; all delays
\* are equal, so callbacks expire in the order they were scheduled
triggerMathJaxTypeset(by, l) ==
  /\ timers' = Append(timers, by)
  /\ log' = IF Idle THEN <<Event("trigger", by)>> ELSE Logged(l, Event("trigger", by))
  /\ uncovered' = (uncovered \/ engineReady)

\* a mount hook that runs the scheduler for math-bearing content only
didMountCallbackMathOnly(by) ==
  IF by = "plain" THEN UNCHANGED <<timers, log, uncovered>>
  ELSE triggerMathJaxTypeset(by, log)

\* didMountCallback of TableText
didMountCallback(by) == triggerMathJaxTypeset(by, log)

MountTag(r) == IF r.kind = "error" THEN "error" ELSE IF r.wrapped THEN "math" ELSE "plain"

\* The host surface renders a value with valueToComponent and, once the nodes
\* are attached, calls didMountCallback. A render that throws mounts nothing.
HostMount(v) ==
  /\ nTriggers < MaxTriggers
  /\ LET rendered == renderTableValue(v) IN
       /\ rendered.kind # "throw"
       /\ contextMounted' = (contextMounted \/ rendered.wrapped)
       /\ didMountCallback(MountTag(rendered))
  /\ nTriggers' = nTriggers + 1
  /\ UNCHANGED <<typesetPromise, microtasks, inflight, engineReady, nFail>>
  /\ UNCHANGED <<tokVars, renderVars>>

\* <MathJaxContext/> finishes loading the engine: window.MathJax.typesetPromise
\* becomes a function
MathJaxLoaded ==
  /\ contextMounted /\ ~engineReady
  /\ engineReady' = TRUE
  /\ UNCHANGED <<typesetPromise, timers, microtasks, inflight, contextMounted,
                 log, nTriggers, nFail, uncovered>>
  /\ UNCHANGED <<tokVars, renderVars>>

\* a callback that calls the engine and drops the promise it returns
TimerExpireNoStore ==
  /\ timers # <<>> /\ microtasks = <<>>
  /\ timers' = Tail(timers)
  /\ IF ShouldInvoke(typesetPromise, engineReady)
     THEN /\ inflight' = inflight + 1
          /\ log' = Logged(log, Event("invoke", Head(timers)))
          /\ uncovered' = FALSE
          /\ UNCHANGED typesetPromise
     ELSE /\ log' = Logged(log, Event("skip", Head(timers)))
          /\ UNCHANGED <<typesetPromise, inflight, uncovered>>
  /\ UNCHANGED <<microtasks, engineReady, contextMounted, nTriggers, nFail>>
  /\ UNCHANGED <<tokVars, renderVars>>

\* The callback given to setTimeout. A timer is a task: it runs only when no
\* promise reaction is pending.
TimerExpire ==
  /\ timers # <<>> /\ microtasks = <<>>
  /\ timers' = Tail(timers)
  /\ IF ShouldInvoke(typesetPromise, engineReady)
     THEN /\ typesetPromise' = "promise"
          /\ inflight' = inflight + 1
          /\ log' = Logged(log, Event("invoke", Head(timers)))
          /\ uncovered' = FALSE
     ELSE /\ log' = Logged(log, Event("skip", Head(timers)))
          /\ UNCHANGED <<typesetPromise, inflight, uncovered>>
  /\ UNCHANGED <<microtasks, engineReady, contextMounted, nTriggers, nFail>>
  /\ UNCHANGED <<tokVars, renderVars>>

\* The engine fulfils a promise it returned: the reaction of .catch is queued.
EngineResolve ==
  /\ inflight > 0
  /\ inflight' = inflight - 1
  /\ microtasks' = Append(microtasks, [h |-> "catch", rejected |-> FALSE])
  /\ log' = Logged(log, Event("ok", "engine"))
  /\ UNCHANGED <<typesetPromise, timers, engineReady, contextMounted, nTriggers,
                 nFail, uncovered>>
  /\ UNCHANGED <<tokVars, renderVars>>

\* The engine rejects a promise it returned.
EngineReject(bounded) ==
  /\ inflight > 0
  /\ bounded => nFail < MaxFail
  /\ nFail' = IF nFail < MaxFail THEN nFail + 1 ELSE nFail
  /\ inflight' = inflight - 1
  /\ microtasks' = Append(microtasks, [h |-> "catch", rejected |-> TRUE])
  /\ log' = Logged(log, Event("fail", "engine"))
  /\ UNCHANGED <<typesetPromise, timers, engineReady, contextMounted, nTriggers,
                 uncovered>>
  /\ UNCHANGED <<tokVars, renderVars>>

\* .catch on a fulfilled promise: no handler runs, the derived promise is
\* fulfilled and the reaction of .then is queued
CatchPassThrough ==
  /\ microtasks # <<>>
  /\ Head(microtasks).h = "catch" /\ ~Head(microtasks).rejected
  /\ microtasks' = Append(Tail(microtasks), [h |-> "then", rejected |-> FALSE])
  /\ UNCHANGED <<typesetPromise, timers, inflight, engineReady, contextMounted,
                 log, nTriggers, nFail, uncovered>>
  /\ UNCHANGED <<tokVars, renderVars>>

\* the handler of .catch (table.js 165-172): typesetClear, clear the handle,
\* trigger again; it returns normally, so the reaction of .then is queued
CatchHandler ==
  /\ microtasks # <<>>
  /\ Head(microtasks).h = "catch" /\ Head(microtasks).rejected
  /\ typesetPromise' = "null"
  /\ triggerMathJaxTypeset("retry", Logged(log, Event("clear", "engine")))
  /\ microtasks' = Append(Tail(microtasks), [h |-> "then", rejected |-> FALSE])
  /\ UNCHANGED <<inflight, engineReady, contextMounted, nTriggers, nFail>>
  /\ UNCHANGED <<tokVars, renderVars>>

\* a .then handler that logs and leaves the handle stored
ThenHandlerKeepsHandle ==
  /\ microtasks # <<>>
  /\ Head(microtasks).h = "then"
  /\ microtasks' = Tail(microtasks)
  /\ UNCHANGED <<typesetPromise, timers, inflight, engineReady, contextMounted,
                 log, nTriggers, nFail, uncovered>>
  /\ UNCHANGED <<tokVars, renderVars>>

\* the handler of .then (table.js 172-175)
ThenHandler ==
  /\ microtasks # <<>>
  /\ Head(microtasks).h = "then"
  /\ typesetPromise' = "null"
  /\ microtasks' = Tail(microtasks)
  /\ UNCHANGED <<timers, inflight, engineReady, contextMounted, log, nTriggers,
                 nFail, uncovered>>
  /\ UNCHANGED <<tokVars, renderVars>>

\* what the host mounts: lists without math (one empty, one of two units) and
\* lists with math in the question or in the answer
MountValues ==
  {Stringify(<<>>),
   Stringify(<< <<<<"a">>, <<"a">>>> >>),
   Stringify(<< <<<<"a">>, <<"a">>>>, <<<<"a">>, <<>>>> >>),
   Stringify(<< <<<<BS, "(", "a", BS, ")">>, <<"a">>>> >>),
   Stringify(<< <<<<"a">>, <<"a">>>>, <<<<"a">>, <<BS, "[", "a", BS, "]">>>> >>)}

NoResult == [kind |-> "none", msg |-> <<>>, rows |-> <<>>, wrapped |-> FALSE]

SchedInit ==
  /\ typesetPromise = "null"
  /\ timers = <<>>
  /\ microtasks = <<>>
  /\ inflight = 0
  /\ engineReady = FALSE
  /\ contextMounted = FALSE
  /\ log = <<>>
  /\ nTriggers = 0
  /\ nFail = 0
  /\ uncovered = FALSE

TokIdle ==
  /\ field = <<>> /\ tokens = <<>> /\ tokensOld = <<>> /\ nodes = <<>>
  /\ tpc = "unused"

RenderIdle ==
  /\ val = <<>> /\ result = NoResult /\ resultOld = NoResult
  /\ resultTable = NoResult /\ rpc = "unused"

Init == SchedInit /\ TokIdle /\ RenderIdle

Next ==
  \/ \E v \in MountValues : HostMount(v)
  \/ MathJaxLoaded
  \/ TimerExpire
  \/ EngineResolve
  \/ EngineReject(TRUE)
  \/ CatchPassThrough
  \/ CatchHandler
  \/ ThenHandler

Spec == Init /\ [][Next]_vars

\* The same scheduler with an engine that may fail any number of times. Timers
\* expire, promise reactions run and the engine settles every call.
NextLive ==
  \/ \E v \in MountValues : HostMount(v)
  \/ MathJaxLoaded
  \/ TimerExpire
  \/ EngineResolve
  \/ EngineReject(FALSE)
  \/ CatchPassThrough
  \/ CatchHandler
  \/ ThenHandler

LiveSpec ==
  /\ Init /\ [][NextLive]_vars
  /\ WF_vars(TimerExpire)
  /\ WF_vars(CatchPassThrough \/ CatchHandler \/ ThenHandler)
  /\ WF_vars(EngineResolve \/ EngineReject(FALSE))
  /\ WF_vars(MathJaxLoaded)

\* ------------------------------------------------ the tokenizer, one field
TokInit ==
  /\ SchedInit /\ RenderIdle
  /\ \E n \in 0..MaxPieces : \E pieces \in [1..n -> Pieces] : field = FieldOf(pieces)
  /\ tokens = <<>> /\ tokensOld = <<>> /\ nodes = <<>>
  /\ tpc = "input"

Tokenize ==
  /\ tpc = "input"
  /\ tokens' = parseConvoWithMath(Str(field)).list
  /\ tokensOld' = parseConvoWithMathOld(Str(field)).list
  /\ tpc' = "split"
  /\ UNCHANGED <<field, nodes, schedVars, renderVars>>

Build ==
  /\ tpc = "split"
  /\ nodes' = renderAllMathJax(tokens)
  /\ tpc' = "built"
  /\ UNCHANGED <<field, tokens, tokensOld, schedVars, renderVars>>

TokNext == Tokenize \/ Build
TokSpec == TokInit /\ [][TokNext]_vars

\* ------------------------------------------- renderTableValue, one value
RenderInit ==
  /\ SchedInit /\ TokIdle
  /\ \E n \in 0..MaxConvs : \E convs \in [1..n -> Tuples] : \E how \in Damages :
       val = Damaged(Stringify(convs), how)
  /\ result = NoResult /\ resultOld = NoResult /\ resultTable = NoResult
  /\ rpc = "input"

Render ==
  /\ rpc = "input"
  /\ result' = renderTableValue(val)
  /\ resultOld' = renderTableValueOld(val)
  /\ resultTable' = renderTableValueTable(val)
  /\ rpc' = "done"
  /\ UNCHANGED <<val, schedVars, tokVars>>

RenderNext == Render
RenderSpec == RenderInit /\ [][RenderNext]_vars

\* =================================================================== claims
\* ---- helpers over the scheduler's history
At(l, e) == {i \in 1..Len(l) : l[i].e = e}
Count(l, e) == Cardinality(At(l, e))
MountTriggers(l) == {i \in At(l, "trigger") : l[i].by # "retry"}
Expiries(l) == At(l, "invoke") \cup At(l, "skip")
Settles(l) == At(l, "ok") \cup At(l, "fail")

\* C1: in every reachable state at most one call to
\* window.MathJax.typesetPromise has been started and not yet settled.
C1_SingleFlight == inflight <= 1

\* a second delay elapsed while the first call was in flight, and started nothing
C1_Witness ==
  /\ inflight = 1 /\ log # <<>>
  /\ log[Len(log)].e = "skip" /\ log[Len(log)].ready

\* The scheduler left Idle with the engine callable, received K mounts before
\* the first of their delays elapsed and no other, the engine never failed,
\* and the scheduler is Idle again.
WindowRun ==
  /\ Idle /\ log # <<>> /\ log[1].ready
  /\ MountTriggers(log) = 1..Cardinality(MountTriggers(log))
  /\ Count(log, "fail") = 0
  /\ Count(log, "ok") = Count(log, "invoke")

\* every delay had elapsed before the engine settled anything
LateSettle == \A i \in Settles(log), j \in Expiries(log) : j < i

RetryRun ==
  /\ log # <<>> /\ log[1].ready
  /\ Cardinality(MountTriggers(log)) = 1
  /\ Count(log, "fail") = 1 /\ Count(log, "ok") = 1
  /\ \A i \in At(log, "fail"), j \in At(log, "ok") : i < j
  /\ microtasks = <<>>

\* C3: after one trigger from Idle, a failure and then a success, the engine
\* was invoked exactly twice, typesetClear was called exactly once and before
\* the retry was invoked, and the handle is null with nothing pending.
C3_Retry ==
  RetryRun =>
    /\ Count(log, "invoke") = 2
    /\ Count(log, "clear") = 1
    /\ \A c \in At(log, "clear") :
         Cardinality({i \in At(log, "invoke") : i < c}) = 1
    /\ typesetPromise = "null"
    /\ timers = <<>>
    /\ inflight = 0

C3_Witness == RetryRun /\ Count(log, "invoke") = 2

\* C4: after finitely many triggers the scheduler eventually reaches Idle and
\* stays there, whatever the engine's outcomes.
C4_Converges == <>[]Idle

\* C10: every trigger made with the engine callable is followed by an engine
\* call started at or after it; so when the scheduler has come to rest no such
\* trigger is left without one.
C10_Covered == Idle => ~uncovered

\* ---- the zero-math fast path
\* v decodes to a list of units whose question and answer yield no Math token
ZeroMath(v) ==
  LET p == JSONparse(v) IN
  /\ p.ok /\ p.v.t = "arr"
  /\ \A i \in 1..Len(p.v.items) : \A k \in {0, 1} :
       /\ Index(p.v.items[i], k).t = "str"
       /\ Len(Split(Index(p.v.items[i], k).s, mathRegex)) = 1

RECURSIVE SumLen(_, _)
\* the total length of the first n entries
SumLen(toks, n) == IF n = 0 THEN 0 ELSE SumLen(toks, n - 1) + Len(toks[n])

\* 0-based offset in the field of entry k, every delimiter being two characters
StartOf(toks, k) == SumLen(toks, k - 1) + 2 * (k - 1)

IsOpener(s, re, i) == i >= 1 /\ i + 1 <= Len(s) /\ s[i] = BS /\ s[i + 1] \in re.open
IsCloser(s, re, i) == i >= 1 /\ i + 1 <= Len(s) /\ s[i] = BS /\ s[i + 1] \in re.close

\* The number of delimiter-wrapped matches, counted by a scanner with the
\* states Outside and Inside reading the field left to right. i is the
\* 1-based position, inside whether an opener is pending.
RECURSIVE ScanCount(_, _, _, _)
ScanCount(s, re, i, inside) ==
  IF i > Len(s) THEN 0
  ELSE IF ~inside
       THEN IF IsOpener(s, re, i) THEN ScanCount(s, re, i + 2, TRUE)
            ELSE ScanCount(s, re, i + 1, FALSE)
  ELSE IF IsCloser(s, re, i) THEN 1 + ScanCount(s, re, i + 2, FALSE)
  ELSE IF ~re.dotAll /\ s[i] = NL THEN ScanCount(s, re, i + 1, FALSE)
  ELSE ScanCount(s, re, i + 1, TRUE)

Alternates(s, toks, re) ==
  \* odd length, one Math per match
  /\ Len(toks) = 2 * ScanCount(s, re, 1, FALSE) + 1
  \* the entries lie in the field in order, separated by the delimiters
  /\ StartOf(toks, Len(toks)) + Len(toks[Len(toks)]) = Len(s)
  /\ \A k \in 1..Len(toks) :
       /\ toks[k] = Substring(s, StartOf(toks, k), StartOf(toks, k) + Len(toks[k]))
       /\ (k % 2 = 0) => /\ IsOpener(s, re, StartOf(toks, k) - 1)
                         /\ IsCloser(s, re, StartOf(toks, k) + Len(toks[k]) + 1)
                         \* a Math interior ends at the first closing delimiter
                         /\ \A j \in 1..Len(toks[k]) : ~IsCloser(toks[k], re, j)
  \* no delimiter at all: the whole input as one Text
  /\ (\A i \in 1..Len(s) : s[i] # BS) => toks = <<s>>

\* C8: parseConvoWithMath returns 2m+1 entries for m matches, Text at the even
\* (0-based) positions and the Math interiors in source order at the odd ones,
\* and the whole input as one Text when there is no delimiter; in both
\* revisions of the tokenizer.
C8_Alternating ==
  tpc # "input" =>
    /\ Alternates(field, tokens, mathRegex)
    /\ Alternates(field, tokensOld, mathRegexOld)

\* two matches, one of each delimiter pair, around text
C8_Witness ==
  /\ tpc = "split" /\ Len(tokens) = 5 /\ Len(tokensOld) = 3
  /\ tokens[2] # <<>>

\* C6: for every Math token the hiddenRaw text equals the delimiter-wrapped
\* substring of the field at that position, so the Text tokens and the
\* hiddenRaw texts in order spell the field.
C6_RoundTrip ==
  tpc = "built" =>
    /\ \A k \in 1..Len(nodes) :
         nodes[k].type = "math" =>
           nodes[k].hiddenRaw =
             Substring(field, StartOf(tokens, k) - 2,
                       StartOf(tokens, k) + Len(tokens[k]) + 2)
    /\ Flatten([k \in 1..Len(nodes) |->
                  IF nodes[k].type = "math" THEN nodes[k].hiddenRaw
                  ELSE nodes[k].content]) = field

\* ---- renderTableValue
\* v decodes to a list of tuples of strings
TupleList(v) ==
  LET p == JSONparse(v) IN
  /\ p.ok /\ p.v.t = "arr"
  /\ \A i \in 1..Len(p.v.items) :
       /\ p.v.items[i].t = "arr"
       /\ \A k \in 1..Len(p.v.items[i].items) : p.v.items[i].items[k].t = "str"

\* position k of a tuple, the empty string when the tuple is too short
FieldOr(tuple, k) == IF k < Len(tuple.items) THEN tuple.items[k + 1] ELSE Str(<<>>)

\* C5: a list whose tuples may lack the question or the answer is rendered
\* row by row, a missing field as the empty string would be; nothing is
\* thrown and no error node is produced.
C5_Normalized ==
  (rpc = "done" /\ TupleList(val)) =>
    /\ result.kind = "rows"
    /\ Len(result.rows) = Len(JSONparse(val).v.items)
    /\ \A i \in 1..Len(result.rows) :
         LET tuple == JSONparse(val).v.items[i] IN
         /\ result.rows[i].q =
              FieldComponent(FieldOr(tuple, 0), Split(FieldOr(tuple, 0).s, mathRegex))
         /\ result.rows[i].a =
              FieldComponent(FieldOr(tuple, 1), Split(FieldOr(tuple, 1).s, mathRegex))

IsErrorNode(r, v) ==
  /\ r.kind = "error"
  /\ r.msg = <<"Couldn't parse JSON: ", JSONparse(v).message>>
  /\ r.rows = <<>>
  /\ ~r.wrapped

\* C9: for a value that is not valid JSON renderTableValue returns the one
\* error node with the parse error's message: no rows, no math wrapper,
\* nothing thrown; in every revision of the component.
C9_ParseError ==
  (rpc = "done" /\ ~JSONparse(val).ok) =>
    /\ IsErrorNode(result, val)
    /\ IsErrorNode(resultOld, val)
    /\ IsErrorNode(resultTable, val)

\* a list cut short after a complete first tuple
C9_Witness ==
  /\ rpc = "done" /\ ~JSONparse(val).ok
  /\ Len(val) > 5 /\ val[Len(val)] = RB
  /\ result.kind = "error"
====
